---- MODULE Spec2Model ----
(***************************************************************************)
(* Model of the hierarchical-quorum data replication node of               *)
(* DataRepServer.py (class DataRepNode) and of the cluster that its        *)
(* __main__ block starts: nine nodes, three bottom groups of three, the    *)
(* first member of each group being the group's level-0 representative.    *)
(*                                                                         *)
(* Every node is one asyncio server; handle_msg runs to completion for one *)
(* inbound message (it has no suspension point after the read, except in   *)
(* the TESTMSG branch), so one delivered message is one atomic action.     *)
(* Every outbound message is its own task (asyncio.async) that sleeps and  *)
(* then opens a fresh connection, so the messages in flight form a bag     *)
(* that is delivered in any order.                                         *)
(***************************************************************************)
EXTENDS Integers, FiniteSets, Sequences, Bags, TLC

VARIABLES
    temp_data,             \* node -> self.temp_data
    data,                  \* node -> self.data
    client_request_info,   \* node -> self.client_request_info
    quorum_requester_info, \* node -> self.quorum_requester_info
    is_top_node,           \* node -> self.is_top_node
    level_quorum_count,    \* node -> self.level_quorum_count (level -> dict)
    net,                   \* bag of messages in flight (pending send tasks)
    writes,                \* history: number of ClientDataMessages delivered so far
    written,               \* history: the Data carried by the ClientDataMessages delivered
    got_write,             \* history: nodes that have handled a WriteDataRequest
    delivered,             \* history: number of in-flight messages handled so far
    handled,               \* history: node -> kind -> number of messages of the kind it handled
    noise,                 \* history: the probes and the unusable payloads handled so far
    coordinator,           \* history: the node that handled the latest ClientDataMessage
    num_groups             \* the number of bottom groups the bootstrap started

vars == <<temp_data, data, client_request_info, quorum_requester_info,
          is_top_node, level_quorum_count, net, writes, written, got_write,
          coordinator, delivered, handled, noise,
          num_groups>>

(***************************************************************************)
(* Bounds of the exploration.                                              *)
(***************************************************************************)
\* ClientDataMessages delivered in one run
MaxWrites == 2

\* messages handled in a run with several writes that may overlap
MaxDeliveries == 7

\* messages handled in a run with one write delivered to any kind of node
MaxOnceDeliveries == 12

\* bottom groups of the small cluster
SmallGroups == 2

\* probes and unusable payloads (undecodable, or of an unsupported type) in one run
MaxNoise == 1

(***************************************************************************)
(* The cluster: servers, partition_all(3, servers), first_level.           *)
(***************************************************************************)
\* the cluster of __main__ has nine servers, that is three groups
MainGroups == 3

GroupSize == 3

\* len(network_structure) of every node of the cluster
Depth == 2

\* Python's None (an unset address, an unset Data)
None == 0

\* the address of the first external writer (outside the servers' ports)
ClientAddr == 100

\* msg.sender of the k-th ClientDataMessage of a run: every write has its own client
Client(k) == ClientAddr + k

\* the fixed majority threshold
QuorumThreshold == 2

\* initial_data = Data(content="lorem", version_number=1); a Data is modelled
\* by its version number
initial_data == 1

\* the Data carried by the k-th ClientDataMessage of a run
Record(k) == initial_data + k

servers == 1..(num_groups * GroupSize)

Levels == 0..(Depth - 1)

\* partition_all(3, servers): the bottom group a server belongs to
netgroup(n) == {m \in servers : (m - 1) \div GroupSize = (n - 1) \div GroupSize}

\* first_level = [g[0] for g in netgroups]
first_level == {n \in servers : (n - 1) % GroupSize = 0}

\* net_group = [first_level, servers[3k:3k+3]]
network_structure(n) == [l \in Levels |-> IF l = 0 THEN first_level ELSE netgroup(n)]

\* Python list indexing: a negative index counts from the end
PyIndex(i) == IF i < 0 THEN i + Depth ELSE i

(***************************************************************************)
(* Dictionaries (level_quorum_count[lvl]).                                 *)
(***************************************************************************)
EmptyDict == [x \in {} |-> TRUE]

DictSet(d, k, v) == [x \in (DOMAIN d) \cup {k} |-> IF x = k THEN v ELSE d[x]]

create_empty_quorum_count == [l \in Levels |-> EmptyDict]

\* the keys of a dict whose value is true
TrueKeys(d) == {k \in DOMAIN d : d[k]}

\* count([q for q in self.level_quorum_count[lvl].values() if q])
count_quorum(lqc, lvl) == Cardinality(TrueKeys(lqc[PyIndex(lvl)]))

(***************************************************************************)
(* Messages.                                                               *)
(***************************************************************************)
\* A message in flight is the pickled Message plus the recipient of its send
\* task (to); the constructors leave the recipient open.
QuorumRequest(sender, d, level) ==
    [kind |-> "QuorumRequest", sender |-> sender, to |-> None, data |-> d, level |-> level]

QuorumResponse(sender, accept_changes, level) ==
    [kind |-> "QuorumResponse", sender |-> sender, to |-> None,
     accept_changes |-> accept_changes, level |-> level]

WriteDataRequest(sender, version_number, level) ==
    [kind |-> "WriteDataRequest", sender |-> sender, to |-> None,
     version_number |-> version_number, level |-> level]

\* send_message_to: one send task
send_message_to(recipient, msg) == SetToBag({[msg EXCEPT !.to = recipient]})

\* send_message_to_many: one send task per server not in ignores
send_message_to_many(srvs, msg, ignores) ==
    SetToBag({[msg EXCEPT !.to = s] : s \in srvs \ ignores})

\* the kinds of message a server sends to a server
Kinds == {"QuorumRequest", "QuorumResponse", "WriteDataRequest"}

\* the history of a node that has handled one more message of kind k
Count(h, n, k) == [h EXCEPT ![n][k] = @ + 1]

\* DataRepNode.__init__ for every server of a cluster of g groups
Boot(g) ==
    /\ num_groups = g
    /\ temp_data = [n \in servers |-> None]
    /\ data = [n \in servers |-> initial_data]
    /\ client_request_info = [n \in servers |-> None]
    /\ quorum_requester_info = [n \in servers |-> None]
    /\ is_top_node = [n \in servers |-> FALSE]
    /\ level_quorum_count = [n \in servers |-> create_empty_quorum_count]
    /\ net = EmptyBag
    /\ writes = 0
    /\ written = {}
    /\ got_write = {}
    /\ coordinator = None
    /\ delivered = 0
    /\ handled = [n \in servers |-> [k \in Kinds |-> 0]]
    /\ noise = {}

\* the cluster of __main__
Init == Boot(MainGroups)

\* a cluster of fewer groups
InitSmall == Boot(SmallGroups)

(***************************************************************************)
(* handle_msg, ClientDataMessage branch.                                   *)
(***************************************************************************)
\* mutant of client_quorum_count: the levels share one dict ([dict()] * len(...)),
\* so the node's own vote shows at every level
client_quorum_count_aliased(n) == [l \in Levels |-> DictSet(EmptyDict, n, TRUE)]

\* the vote table after the reset: empty at every level, self at the last
client_quorum_count(n) ==
    [create_empty_quorum_count EXCEPT ![PyIndex(-1)] = DictSet(@, n, TRUE)]

\* mutant of client_fan_out: the bottom-group fan-out forgets ignores=[self.info]
client_fan_out_to_self(n, d) ==
    send_message_to_many(network_structure(n)[0], QuorumRequest(n, d, 0), {n})
    (+) send_message_to_many(network_structure(n)[PyIndex(-1)],
                             QuorumRequest(n, d, Depth - 1), {})

\* the two fan-outs: level 0 to network_structure[0], level L-1 to network_structure[-1]
client_fan_out(n, d) ==
    send_message_to_many(network_structure(n)[0], QuorumRequest(n, d, 0), {n})
    (+) send_message_to_many(network_structure(n)[PyIndex(-1)],
                             QuorumRequest(n, d, Depth - 1), {n})

HandleClientDataMessage(n, sender, d) ==
    LET out == client_fan_out(n, d) IN
    /\ temp_data' = [temp_data EXCEPT ![n] = d]
    /\ client_request_info' = [client_request_info EXCEPT ![n] = sender]
    /\ is_top_node' = [is_top_node EXCEPT ![n] = TRUE]
    /\ level_quorum_count' = [level_quorum_count EXCEPT ![n] = client_quorum_count(n)]
    /\ net' = net (+) out
    /\ writes' = writes + 1
    /\ written' = written \cup {d}
    /\ coordinator' = n
    /\ UNCHANGED <<data, quorum_requester_info, got_write, delivered, handled,
                   noise, num_groups>>

(***************************************************************************)
(* handle_msg, QuorumRequest branch.                                       *)
(***************************************************************************)
\* mutant of request_quorum_count: the sender's placeholder at every level
request_quorum_count_placeholder(lqc, n, sender, current_lvl) ==
    [lqc EXCEPT ![current_lvl] = DictSet(@, sender, FALSE)]

\* the vote registered by a node that forwards the request one level down
request_quorum_count(lqc, n, sender, current_lvl) ==
    IF current_lvl = Depth - 1
    THEN [lqc EXCEPT ![current_lvl] = DictSet(@, n, TRUE)]
    ELSE [lqc EXCEPT ![current_lvl] = DictSet(@, sender, FALSE)]

\* mutant of request_requester: a node that already has a pending parent keeps it
request_requester_first(requester, sender, current_lvl) ==
    IF current_lvl < Depth /\ requester = None THEN sender ELSE requester

\* lines 172-173: the requester a node remembers
request_requester(requester, sender, current_lvl) ==
    IF current_lvl < Depth THEN sender ELSE requester

\* mutant of request_out: a leaf replies at the level of the request it got
request_out_echo_level(n, sender, d, current_lvl) ==
    IF current_lvl < Depth
    THEN send_message_to_many(network_structure(n)[current_lvl],
                              QuorumRequest(n, d, current_lvl), {n})
    ELSE send_message_to(sender, QuorumResponse(n, TRUE, current_lvl - 1))

\* mutant of request_out: a leaf validates the record against its own data and
\* accepts only a newer one
request_out_validated(n, sender, d, current_lvl) ==
    IF current_lvl < Depth
    THEN send_message_to_many(network_structure(n)[current_lvl],
                              QuorumRequest(n, d, current_lvl), {n})
    ELSE send_message_to(sender, QuorumResponse(n, d > data[n], current_lvl))

\* lines 175-181 and 194-200: the request forwarded one level down, or the
\* reply of a leaf
request_out(n, sender, d, current_lvl) ==
    IF current_lvl < Depth
    THEN send_message_to_many(network_structure(n)[current_lvl],
                              QuorumRequest(n, d, current_lvl), {n})
    ELSE send_message_to(sender, QuorumResponse(n, TRUE, current_lvl))

HandleQuorumRequest(n, m) ==
    LET current_lvl == m.level + 1
        forward == current_lvl < Depth
        out == request_out(n, m.sender, m.data, current_lvl)
    IN
    /\ quorum_requester_info' =
         [quorum_requester_info EXCEPT ![n] = request_requester(@, m.sender, current_lvl)]
    /\ level_quorum_count' =
         IF forward
         THEN [level_quorum_count EXCEPT
                 ![n] = request_quorum_count(@, n, m.sender, current_lvl)]
         ELSE level_quorum_count
    /\ net' = (net (-) SetToBag({m})) (+) out
    /\ delivered' = delivered + 1
    /\ handled' = Count(handled, n, m.kind)
    /\ UNCHANGED <<temp_data, data, client_request_info, is_top_node,
                   writes, written, got_write, coordinator, noise, num_groups>>

(***************************************************************************)
(* handle_msg, QuorumResponse branch.                                      *)
(***************************************************************************)
\* mutant of quorum_reached: the majority must be exceeded, not reached
quorum_reached_strict(lqc, lvl) == count_quorum(lqc, lvl) > QuorumThreshold

\* mutant of quorum_reached: one true vote is enough
quorum_reached_at_one(lqc, lvl) == count_quorum(lqc, lvl) >= 1

\* self.count_quorum(current_lvl) >= 2
quorum_reached(lqc, lvl) == count_quorum(lqc, lvl) >= QuorumThreshold

\* mutant of response_quorum_count: only a sender the table already lists is counted
response_quorum_count_asked(lqc, n, sender, current_lvl) ==
    IF sender \in DOMAIN lqc[PyIndex(current_lvl)]
    THEN [lqc EXCEPT ![PyIndex(current_lvl)] = DictSet(@, sender, TRUE)]
    ELSE lqc

\* mutant of response_quorum_count: the node's own vote one level up is not set
response_quorum_count_no_bubble(lqc, n, sender, current_lvl) ==
    [lqc EXCEPT ![PyIndex(current_lvl)] = DictSet(@, sender, TRUE)]

\* lines 212-217: register the sender's vote; a sender of the node's own bottom
\* group that completes the quorum also sets the node's own vote one level up
response_quorum_count(lqc, n, sender, current_lvl) ==
    LET voted == [lqc EXCEPT ![PyIndex(current_lvl)] = DictSet(@, sender, TRUE)] IN
    IF sender \in network_structure(n)[PyIndex(-1)] /\ quorum_reached(voted, current_lvl)
    THEN [voted EXCEPT ![PyIndex(current_lvl - 1)] = DictSet(@, n, TRUE)]
    ELSE voted

\* mutant of save_data: saving the Data that is already stored bumps its version
save_data_bump(n) == [data EXCEPT ![n] = IF @ = temp_data[n] THEN @ + 1 ELSE temp_data[n]]

\* self.save_data()
save_data(n) == [data EXCEPT ![n] = temp_data[n]]

\* mutant of response_out: the node acts only when the count reaches the
\* threshold, not when it is past it
response_out_once(lqc, n, current_lvl) ==
    IF count_quorum(lqc, current_lvl) = QuorumThreshold
    THEN IF current_lvl = 0
         THEN send_message_to_many(network_structure(n)[0], WriteDataRequest(n, 0, 0), {n})
         ELSE IF ~is_top_node[n]
              THEN send_message_to(quorum_requester_info[n],
                                   QuorumResponse(n, TRUE, current_lvl))
              ELSE EmptyBag
    ELSE EmptyBag

\* mutant of response_out: the test of is_top_node is missing
response_out_top_forwards(lqc, n, current_lvl) ==
    IF quorum_reached(lqc, current_lvl)
    THEN IF current_lvl = 0
         THEN send_message_to_many(network_structure(n)[0], WriteDataRequest(n, 0, 0), {n})
         ELSE send_message_to(quorum_requester_info[n],
                              QuorumResponse(n, TRUE, current_lvl))
    ELSE EmptyBag

\* lines 221-243: what the node sends once the vote is registered
response_out(lqc, n, current_lvl) ==
    IF quorum_reached(lqc, current_lvl)
    THEN IF current_lvl = 0
         THEN send_message_to_many(network_structure(n)[0], WriteDataRequest(n, 0, 0), {n})
         ELSE IF ~is_top_node[n]
              THEN send_message_to(quorum_requester_info[n],
                                   QuorumResponse(n, TRUE, current_lvl))
              ELSE EmptyBag
    ELSE EmptyBag

HandleQuorumResponse(n, m) ==
    LET current_lvl == m.level - 1
        lqc == response_quorum_count(level_quorum_count[n], n, m.sender, current_lvl)
        out == response_out(lqc, n, current_lvl)
    IN
    /\ level_quorum_count' = [level_quorum_count EXCEPT ![n] = lqc]
    /\ data' = IF quorum_reached(lqc, current_lvl) /\ current_lvl = 0
               THEN save_data(n) ELSE data
    /\ net' = (net (-) SetToBag({m})) (+) out
    /\ delivered' = delivered + 1
    /\ handled' = Count(handled, n, m.kind)
    /\ UNCHANGED <<temp_data, client_request_info, quorum_requester_info,
                   is_top_node, writes, written, got_write, coordinator, noise,
                   num_groups>>

(***************************************************************************)
(* handle_msg, WriteDataRequest branch.                                    *)
(***************************************************************************)
\* mutant of write_out: a node of the last level starts the cascade again in
\* its bottom group
write_out_restart(n, current_lvl) ==
    IF current_lvl < Depth
    THEN send_message_to_many(network_structure(n)[current_lvl],
                              WriteDataRequest(n, 0, current_lvl), {n})
    ELSE send_message_to_many(network_structure(n)[PyIndex(-1)],
                              WriteDataRequest(n, 0, 0), {n})

\* mutant of write_out: the request is passed on at the level it came with, at
\* every level
write_out_same_level(n, current_lvl) ==
    send_message_to_many(network_structure(n)[PyIndex(-1)],
                         WriteDataRequest(n, 0, current_lvl - 1), {n})

\* mutant of write_out: the node applies and stops, it forwards nothing
write_out_stop(n, current_lvl) == EmptyBag

\* lines 251-255: the WriteDataRequest forwarded one level down
write_out(n, current_lvl) ==
    IF current_lvl < Depth
    THEN send_message_to_many(network_structure(n)[current_lvl],
                              WriteDataRequest(n, 0, current_lvl), {n})
    ELSE EmptyBag

HandleWriteDataRequest(n, m) ==
    LET current_lvl == m.level + 1
        out == write_out(n, current_lvl)
    IN
    /\ data' = save_data(n)
    /\ net' = (net (-) SetToBag({m})) (+) out
    /\ delivered' = delivered + 1
    /\ got_write' = got_write \cup {n}
    /\ handled' = Count(handled, n, m.kind)
    /\ UNCHANGED <<temp_data, client_request_info, quorum_requester_info,
                   is_top_node, level_quorum_count, writes, written, coordinator,
                   noise, num_groups>>

(***************************************************************************)
(* handle_msg, the branches that belong to no write: TESTMSG, a payload    *)
(* that pickle.loads rejects, and an object of an unsupported type.  The   *)
(* history records the node, the branch, what the node wrote back on the   *)
(* inbound connection, and how many messages the node had handled by then. *)
(***************************************************************************)
\* what a step of these branches adds to the history
Noted(n, kind, reply) ==
    noise \cup {[node |-> n, kind |-> kind, reply |-> reply, before |-> handled[n]]}

\* the transaction state of the nodes and the pending send tasks
protocol_state ==
    <<temp_data, data, client_request_info, quorum_requester_info, is_top_node,
      level_quorum_count, net>>

\* mutant of HandleTESTMSG: the probe starts the node afresh (empty vote table)
HandleTESTMSG_reset(n) ==
    /\ noise' = Noted(n, "TESTMSG", "TESTMSG")
    /\ level_quorum_count' = [level_quorum_count EXCEPT ![n] = create_empty_quorum_count]
    /\ UNCHANGED <<temp_data, data, client_request_info, quorum_requester_info,
                   is_top_node, net>>
    /\ UNCHANGED <<writes, written, got_write, coordinator, delivered, handled, num_groups>>

\* lines 109-115: the node writes pickle.dumps(TESTMSG) back on the inbound
\* connection (no send task) and closes it; the handler is suspended in
\* writer.drain(), with nothing left to do but close the connection
HandleTESTMSG(n) ==
    /\ noise' = Noted(n, "TESTMSG", "TESTMSG")
    /\ UNCHANGED protocol_state
    /\ UNCHANGED <<writes, written, got_write, coordinator, delivered, handled, num_groups>>

\* lines 105-107 and 261-262: pickle.loads raises, the except clause prints
HandleMalformed(n) ==
    /\ noise' = Noted(n, "malformed", "none")
    /\ UNCHANGED protocol_state
    /\ UNCHANGED <<writes, written, got_write, coordinator, delivered, handled, num_groups>>

\* mutant of HandleUnsupported: the node gives up the write it has pending
HandleUnsupported_clears(n) ==
    /\ noise' = Noted(n, "unsupported", "none")
    /\ temp_data' = [temp_data EXCEPT ![n] = None]
    /\ UNCHANGED <<data, client_request_info, quorum_requester_info, is_top_node,
                   level_quorum_count, net>>
    /\ UNCHANGED <<writes, written, got_write, coordinator, delivered, handled, num_groups>>

\* lines 257-259: the else branch prints the object
HandleUnsupported(n) ==
    /\ noise' = Noted(n, "unsupported", "none")
    /\ UNCHANGED protocol_state
    /\ UNCHANGED <<writes, written, got_write, coordinator, delivered, handled, num_groups>>

(***************************************************************************)
(* The environment: clients and the network.                               *)
(***************************************************************************)
InFlight == BagToSet(net)

\* The cluster is symmetric under exchanging groups and exchanging the two
\* members of a group that are not its representative, so server 1 stands for
\* the representatives and server 2 for the other members.
AnyEntry == {n \in servers : n <= 2}

\* clients deliver ClientDataMessages to any kind of node, at any time
ClientWrite ==
    \E n \in AnyEntry :
        /\ writes < MaxWrites
        /\ HandleClientDataMessage(n, Client(writes + 1), Record(writes + 1))

\* one client delivers one ClientDataMessage to any kind of node
ClientWriteOnce ==
    \E n \in AnyEntry :
        /\ writes = 0
        /\ HandleClientDataMessage(n, Client(1), Record(1))

\* one client delivers one ClientDataMessage to a representative
ClientWriteLeader ==
    \E n \in AnyEntry \cap first_level :
        /\ writes = 0
        /\ HandleClientDataMessage(n, Client(1), Record(1))

\* a client that waits until the cluster is quiet before it writes again, to a
\* representative
ClientWriteQuiet ==
    \E n \in first_level :
        /\ writes < MaxWrites
        /\ net = EmptyBag
        /\ HandleClientDataMessage(n, Client(writes + 1), Record(writes + 1))

DeliverQuorumRequest ==
    \E m \in InFlight : m.kind = "QuorumRequest" /\ HandleQuorumRequest(m.to, m)

\* a response addressed to None (no requester known) is a send task that fails
DeliverQuorumResponse ==
    \E m \in InFlight :
        m.kind = "QuorumResponse" /\ m.to \in servers /\ HandleQuorumResponse(m.to, m)

DeliverWriteDataRequest ==
    \E m \in InFlight : m.kind = "WriteDataRequest" /\ HandleWriteDataRequest(m.to, m)

Deliver == DeliverQuorumRequest \/ DeliverQuorumResponse \/ DeliverWriteDataRequest

\* one client after the other delivers a ClientDataMessage to representative 1,
\* at any time
ClientWriteRepeat ==
    \E n \in AnyEntry \cap first_level :
        /\ writes < MaxWrites
        /\ HandleClientDataMessage(n, Client(writes + 1), Record(writes + 1))

\* the representative the k-th client of a run writes to: the clients take
\* turns between the representatives of the first two groups
Turn(k) == 1 + GroupSize * ((k - 1) % 2)

\* one client after the other delivers a ClientDataMessage, at any time, each
\* to another representative than the one before
ClientWriteTurns ==
    \E n \in {Turn(writes + 1)} :
        /\ writes < MaxWrites
        /\ HandleClientDataMessage(n, Client(writes + 1), Record(writes + 1))

\* the cluster of __main__, up to MaxWrites writes to any kind of node that may
\* overlap, explored up to MaxDeliveries handled messages
Next ==
    \/ ClientWrite
    \/ (delivered < MaxDeliveries /\ DeliverQuorumRequest)
    \/ (delivered < MaxDeliveries /\ DeliverQuorumResponse)
    \/ (delivered < MaxDeliveries /\ DeliverWriteDataRequest)

Spec == Init /\ [][Next]_vars

\* the cluster of __main__, up to MaxWrites writes to one representative that
\* may overlap, explored up to MaxDeliveries handled messages
NextRepeat ==
    \/ ClientWriteRepeat
    \/ (delivered < MaxDeliveries /\ DeliverQuorumRequest)
    \/ (delivered < MaxDeliveries /\ DeliverQuorumResponse)
    \/ (delivered < MaxDeliveries /\ DeliverWriteDataRequest)

SpecRepeat == Init /\ [][NextRepeat]_vars

\* the cluster of __main__, up to MaxWrites writes that may overlap, to two
\* representatives in turn, explored up to MaxDeliveries handled messages
NextOverlap ==
    \/ ClientWriteTurns
    \/ (delivered < MaxDeliveries /\ DeliverQuorumRequest)
    \/ (delivered < MaxDeliveries /\ DeliverQuorumResponse)
    \/ (delivered < MaxDeliveries /\ DeliverWriteDataRequest)

SpecOverlap == Init /\ [][NextOverlap]_vars

\* anyone can connect to a server and write a TESTMSG, bytes that are no
\* pickle, or the pickle of some other object
Probe == \E n \in AnyEntry : Cardinality(noise) < MaxNoise /\ HandleTESTMSG(n)

Malformed == \E n \in AnyEntry : Cardinality(noise) < MaxNoise /\ HandleMalformed(n)

Unsupported == \E n \in AnyEntry : Cardinality(noise) < MaxNoise /\ HandleUnsupported(n)

\* the cluster of __main__, one write delivered to a representative and up to
\* MaxNoise probes or unusable payloads at any time, explored up to
\* MaxDeliveries handled messages
NextNoise ==
    \/ ClientWriteLeader
    \/ Probe
    \/ Malformed
    \/ Unsupported
    \/ (delivered < MaxDeliveries /\ DeliverQuorumRequest)
    \/ (delivered < MaxDeliveries /\ DeliverQuorumResponse)
    \/ (delivered < MaxDeliveries /\ DeliverWriteDataRequest)

SpecNoise == Init /\ [][NextNoise]_vars

\* the cluster of __main__, one write delivered to any kind of node, explored
\* up to MaxOnceDeliveries handled messages
NextOnce ==
    \/ ClientWriteOnce
    \/ (delivered < MaxOnceDeliveries /\ DeliverQuorumRequest)
    \/ (delivered < MaxOnceDeliveries /\ DeliverQuorumResponse)
    \/ (delivered < MaxOnceDeliveries /\ DeliverWriteDataRequest)

SpecOnce == Init /\ [][NextOnce]_vars

\* the cluster of __main__, one write delivered to any kind of node, the
\* quorum explored to the end: QuorumRequests and QuorumResponses in any
\* order, the WriteDataRequests of the commit left in flight (their handler
\* reads and writes no vote).  Every send task sleeps, connects and writes,
\* so a message in flight is delivered in the end.
DeliverQuorum == DeliverQuorumRequest \/ DeliverQuorumResponse

NextQuorum == ClientWriteOnce \/ DeliverQuorum

SpecQuorum == Init /\ [][NextQuorum]_vars /\ WF_vars(DeliverQuorum)

\* the cluster of __main__, one write delivered to a representative, explored
\* to the end
NextLeader == ClientWriteLeader \/ Deliver

SpecLeader == Init /\ [][NextLeader]_vars

\* the same run, every message in flight delivered in the end (every send
\* task sleeps 2 seconds, connects and writes)
SpecLeaderFair == Init /\ [][NextLeader]_vars /\ WF_vars(Deliver)

\* one whole top-level branch is cut off: the servers of the last bottom group
\* are unreachable (the coordinator's group is the first)
LostBranch == netgroup(num_groups * GroupSize)

\* send_message_to for an unreachable recipient: open_connection raises in the
\* send task and the message is gone
LoseMessage ==
    \E m \in InFlight :
        /\ m.to \in LostBranch
        /\ net' = net (-) SetToBag({m})
        /\ UNCHANGED <<temp_data, data, client_request_info, quorum_requester_info,
                       is_top_node, level_quorum_count, writes, written, got_write,
                       coordinator, delivered, handled, noise, num_groups>>

\* the reachable servers handle what is sent to them; the servers of the lost
\* branch handle nothing, so no message of theirs ever exists
ReachQuorumRequest ==
    \E m \in InFlight :
        m.kind = "QuorumRequest" /\ m.to \notin LostBranch /\ HandleQuorumRequest(m.to, m)

ReachQuorumResponse ==
    \E m \in InFlight :
        /\ m.kind = "QuorumResponse" /\ m.to \in servers \ LostBranch
        /\ HandleQuorumResponse(m.to, m)

Reach == ReachQuorumRequest \/ ReachQuorumResponse

\* the cluster of __main__ with one branch cut off, one write delivered to any
\* kind of node of the first group, the quorum explored to the end as in
\* SpecQuorum (the WriteDataRequests of a commit are left in flight); every
\* QuorumRequest and QuorumResponse to a reachable server is delivered in the
\* end
NextMinority == ClientWriteOnce \/ LoseMessage \/ Reach

SpecMinority == Init /\ [][NextMinority]_vars /\ WF_vars(Reach)

\* the small cluster, writes one after the other, explored to the end
NextQuiet == ClientWriteQuiet \/ Deliver

SpecQuiet == InitSmall /\ [][NextQuiet]_vars

(***************************************************************************)
(* Vocabulary of the properties.  A step that handles an in-flight message *)
(* removes one copy of it from net and adds the send tasks it created; no  *)
(* handler sends a copy of the message it handles (the sender of every     *)
(* message it creates is the node itself).                                 *)
(***************************************************************************)
\* the messages created by the step
Sent == net' (-) net

\* the step handled the in-flight message m
Took(m) == net (-) net' = SetToBag({m})

\* the number of true votes node n holds for level lvl
TrueVotes(lqc, lvl) == Cardinality({k \in DOMAIN lqc[lvl] : lqc[lvl][k] = TRUE})

\* node n holds a true vote of k at level lvl
VotedTrue(lqc, lvl, k) == k \in DOMAIN lqc[lvl] /\ lqc[lvl][k] = TRUE

\* C3 (majority gate): a node that has handled a QuorumResponse for level
\* current and then holds fewer than 2 true votes at that level has created no
\* send task (no QuorumResponse, no WriteDataRequest) and has left every
\* node's data unchanged; so it forwards or commits only with 2 true votes.
C3_MajorityGate ==
    [][\A m \in InFlight :
         (/\ m.kind = "QuorumResponse"
          /\ Took(m)
          /\ TrueVotes(level_quorum_count'[m.to], m.level - 1) < 2)
         => (Sent = EmptyBag /\ data' = data)]_vars

\* a coordinator holds exactly one true vote at level 0, cast by another
\* representative, has not committed, and no WriteDataRequest exists
C3_Witness ==
    \E n \in servers :
        /\ is_top_node[n]
        /\ TrueVotes(level_quorum_count[n], 0) = 1
        /\ \E k \in servers \ {n} : VotedTrue(level_quorum_count[n], 0, k)
        /\ data[n] = initial_data
        /\ \A m \in InFlight : m.kind # "WriteDataRequest"

\* C4 (bubble rule): when a node has handled a QuorumResponse of level L sent by
\* a member of its own bottom group and then holds at least 2 true votes at
\* level L-1, it holds its own true vote at level L-2; that vote was not sent
\* to it, since no message has the same sender and recipient.
C4_BubbleRule ==
    [][\A m \in InFlight :
         (/\ m.kind = "QuorumResponse"
          /\ Took(m)
          /\ m.sender \in netgroup(m.to)
          /\ m.level = Depth
          /\ TrueVotes(level_quorum_count'[m.to], Depth - 1) >= 2)
         => (/\ VotedTrue(level_quorum_count'[m.to], Depth - 2, m.to)
             /\ \A x \in InFlight : x.sender # x.to)]_vars

\* a node holds 2 true votes of its bottom group and its own vote at level L-2
C4_Witness ==
    \E n \in servers :
        /\ TrueVotes(level_quorum_count[n], Depth - 1) = 2
        /\ VotedTrue(level_quorum_count[n], Depth - 2, n)
        /\ \A k \in servers \ {n} : ~VotedTrue(level_quorum_count[n], Depth - 2, k)

\* C1 (convergence): once the single ClientWrite{r} has been handled and no
\* message is in flight any more, every node's data is r.
C1_Convergence ==
    (writes = 1 /\ net = EmptyBag) => \A n \in servers : data[n] = Record(1)

\* C2 (hierarchical quorum before apply): at the step in which a node commits
\* (it handles a QuorumResponse and broadcasts WriteDataRequest{level 0}), its
\* true level-0 votes number at least two, no two of them come from the same
\* bottom group, and each comes from a group in which some node counts at
\* least two true votes of the group's own members.
C2_HierarchicalQuorum ==
    [][\A m \in InFlight :
         (/\ m.kind = "QuorumResponse"
          /\ Took(m)
          /\ \E x \in BagToSet(Sent) : x.kind = "WriteDataRequest" /\ x.level = 0)
         => LET votes == level_quorum_count'[m.to][0]
                V == {k \in DOMAIN votes : votes[k] = TRUE}
            IN /\ Cardinality(V) >= 2
               /\ \A a, b \in V : a # b => netgroup(a) # netgroup(b)
               /\ \A a \in V : \E x \in netgroup(a) :
                      TrueVotes(level_quorum_count'[x], Depth - 1) >= 2]_vars

\* the vote table the claims expect after a reset in which node n registers
\* itself at level lvl: nothing else at any level
FreshVotes(n, lvl) == [l \in Levels |-> IF l = lvl THEN (n :> TRUE) ELSE EmptyDict]

\* C5 (transaction reset): after a node has handled a ClientWrite, whatever its
\* vote table held, every level's mapping is empty except level L-1, which is
\* exactly {self: true}; temp_data is the new record and client_request_info
\* the new sender.
C5_TransactionReset ==
    [][writes' = writes + 1 =>
         LET n == coordinator' IN
         /\ level_quorum_count'[n] = FreshVotes(n, Depth - 1)
         /\ temp_data'[n] = Record(writes')
         /\ client_request_info'[n] = Client(writes')]_vars

\* the state right after a node that committed the first write (so it held at
\* least two level-0 votes) handled the second ClientWrite
C5_Witness ==
    /\ writes = 2
    /\ data[coordinator] = Record(1)
    /\ temp_data[coordinator] = Record(2)
    /\ client_request_info[coordinator] = Client(2)
    /\ level_quorum_count[coordinator] = FreshVotes(coordinator, Depth - 1)

\* C6 (reset on a non-coordinator): after a node has handled a
\* QuorumRequest{level 0}, its vote table holds the vote registered by that
\* handler and no vote of an earlier write.
C6_RequestReset ==
    [][\A m \in InFlight :
         (m.kind = "QuorumRequest" /\ m.level = 0 /\ Took(m))
         => level_quorum_count'[m.to] = FreshVotes(m.to, Depth - 1)]_vars

\* C7 (isCoordinator): with writes submitted one after the other, a node other
\* than the coordinator of the write in progress handles that write's
\* QuorumRequests and QuorumResponses with is_top_node = false, and it forwards
\* a QuorumResponse upward when its bottom group reaches two true votes.
C7_OnlyCoordinatorIsTop ==
    [][\A m \in InFlight :
         (Took(m) /\ m.to # coordinator /\ m.kind \in {"QuorumRequest", "QuorumResponse"})
         => /\ ~is_top_node'[m.to]
            /\ (/\ m.kind = "QuorumResponse"
                /\ m.level = Depth
                /\ TrueVotes(level_quorum_count'[m.to], Depth - 1) >= 2)
               => \E x \in BagToSet(Sent) :
                      x.kind = "QuorumResponse" /\ x.sender = m.to]_vars

\* C8 (data is always a Record): every node's data is the initial Data or a
\* Data carried by a ClientDataMessage handled in the run, never None.
C8_DataIsRecord ==
    \A n \in servers : data[n] \in {initial_data} \cup written

\* C9 (commit cascade coverage): once the coordinator has committed the single
\* write and no message is in flight any more, every other node has handled at
\* least one WriteDataRequest.
C9_CascadeCoverage ==
    (writes = 1 /\ net = EmptyBag /\ data[coordinator] = Record(1))
    => \A n \in servers \ {coordinator} : n \in got_write


\* the fan-out the claim expects of a ClientWrite{d} handled by node n
ExpectedFanOut(n, d) ==
    SetToBag({[kind |-> "QuorumRequest", sender |-> n, to |-> s, data |-> d,
               level |-> 0] : s \in network_structure(n)[0] \ {n}}
             \cup {[kind |-> "QuorumRequest", sender |-> n, to |-> s, data |-> d,
                    level |-> Depth - 1] : s \in network_structure(n)[Depth - 1] \ {n}})

\* C10 (ClientWrite fan-out): the step that handles a ClientDataMessage{d} at
\* node n creates exactly one QuorumRequest{d, level 0} per member of level(0)
\* other than n and one QuorumRequest{d, level L-1} per member of level(L-1)
\* other than n, nothing for n itself, and leaves VoteTable[L-1][n] = true.
C10_ClientFanOut ==
    [][writes' = writes + 1 =>
         LET n == coordinator'
             d == Record(writes')
         IN /\ Sent = ExpectedFanOut(n, d)
            /\ \A m \in BagToSet(Sent) : m.to # n /\ m.sender = n
            /\ VotedTrue(level_quorum_count'[n], Depth - 1, n)]_vars

\* the state right after a member that is no representative handled the write
C10_Witness ==
    /\ writes = 1
    /\ coordinator \notin first_level
    /\ net = ExpectedFanOut(coordinator, Record(1))
    /\ BagCardinality(net) = Cardinality(first_level) + GroupSize - 1

\* C11 as stated (depth-2 scenario): a node that handles the coordinator's
\* WriteDataRequest{level 0} sets data = temp_data and stops: the step creates
\* no further WriteDataRequest.
C11_ApplyAndStop ==
    [][\A m \in InFlight :
         (m.kind = "WriteDataRequest" /\ m.level = 0 /\ Took(m))
         => (/\ data'[m.to] = temp_data[m.to]
             /\ \A x \in BagToSet(Sent) : x.kind # "WriteDataRequest")]_vars

\* the WriteDataRequests a node n forwards to the other members of its own
\* bottom group
GroupCascade(n) ==
    SetToBag({[kind |-> "WriteDataRequest", sender |-> n, to |-> s,
               version_number |-> 0, level |-> 1] : s \in netgroup(n) \ {n}})

\* C11 as amended: a node that handles a WriteDataRequest{level 0} sets
\* data = temp_data and forwards one WriteDataRequest{level 1} to every other
\* member of its own bottom group (next = 1 < L = 2); a node that handles a
\* WriteDataRequest{level 1} sets data = temp_data and stops (next = 2 = L).
C11_ApplyAndCascade ==
    [][\A m \in InFlight :
         (m.kind = "WriteDataRequest" /\ Took(m))
         => (/\ data'[m.to] = temp_data[m.to]
             /\ m.level = 0 => Sent = GroupCascade(m.to)
             /\ m.level = 1 => Sent = EmptyBag)]_vars

\* a representative other than the coordinator has handled the coordinator's
\* WriteDataRequest{level 0}, and the two other members of its group have
\* handled the WriteDataRequest{level 1} it forwarded
C11_Witness ==
    \E n \in first_level \ {coordinator} :
        /\ netgroup(n) \subseteq got_write
        /\ \A m \in InFlight : m.kind = "WriteDataRequest" => m.to \notin netgroup(n)

\* node n has handled WriteDataRequests only, k of them at least (it never
\* handled a ClientDataMessage either: is_top_node is never set back)
OnlyWrites(n, k) ==
    /\ handled[n]["WriteDataRequest"] >= k
    /\ handled[n]["QuorumRequest"] = 0
    /\ handled[n]["QuorumResponse"] = 0
    /\ ~is_top_node[n]

\* C12 (idempotent commit): the step in which a node handles a
\* WriteDataRequest changes no temp_data, vote table, is_top_node,
\* quorum_requester_info or client_request_info, and a second delivery right
\* after it would store the data the first one stored (save_data applied in
\* the state after the step gives the data of that state); where the node has
\* handled nothing but WriteDataRequests before, the step leaves its data as
\* the previous delivery made it.
C12_IdempotentCommit ==
    [][\A m \in InFlight :
         (m.kind = "WriteDataRequest" /\ Took(m))
         => (/\ save_data(m.to)' = data'
             /\ OnlyWrites(m.to, 1) => data'[m.to] = data[m.to]
             /\ temp_data' = temp_data
             /\ level_quorum_count' = level_quorum_count
             /\ is_top_node' = is_top_node
             /\ quorum_requester_info' = quorum_requester_info
             /\ client_request_info' = client_request_info)]_vars

\* a node has handled two WriteDataRequests in a row: two of them and no
\* other message
C12_Witness ==
    \E n \in servers : OnlyWrites(n, 2) /\ n \in got_write /\ data[n] = temp_data[n]

\* an aggregated QuorumResponse: one a node sends for its group (level < L),
\* not the reply of a leaf (level = L)
Aggregated(x) == x.kind = "QuorumResponse" /\ x.level < Depth

\* C13 (overlapping writes clobber the requester): a node that handles a
\* QuorumRequest{level m} with m+1 < L remembers its sender as the requester,
\* whatever requester it had; and every aggregated QuorumResponse a node
\* creates goes to the requester it remembers at that time and to nobody else,
\* so the sender of an earlier request gets none once it has been replaced.
C13_RequesterClobbered ==
    [][/\ \A m \in InFlight :
            (m.kind = "QuorumRequest" /\ m.level + 1 < Depth /\ Took(m))
            => quorum_requester_info'[m.to] = m.sender
       /\ \A x \in BagToSet(Sent) :
            Aggregated(x)
            => (/\ x.to = quorum_requester_info'[x.sender]
                /\ quorum_requester_info' = quorum_requester_info
                /\ Sent = SetToBag({x}))]_vars

\* node z has handled the QuorumRequest{level 0} of coordinator x and then,
\* before any vote reached it, that of coordinator y; the one aggregated
\* QuorumResponse it has created since is in flight to y, and x holds no vote
\* of z
C13_Witness ==
    \E z \in first_level, x \in servers :
        LET y == coordinator IN
        /\ writes = 2
        /\ is_top_node[x] /\ x # y /\ ~is_top_node[z]
        /\ handled[z]["QuorumRequest"] = 2
        /\ handled[z]["QuorumResponse"] = 1
        /\ quorum_requester_info[z] = y
        /\ \E m \in InFlight : Aggregated(m) /\ m.sender = z /\ m.to = y
        /\ \A m \in InFlight : Aggregated(m) /\ m.sender = z => m.to # x
        /\ ~VotedTrue(level_quorum_count[x], 0, z)

\* what the step added to the history of probes and unusable payloads
NewNoise == noise' \ noise

\* C14 (Probe is state-neutral): the step in which a node handles a TESTMSG
\* changes no temp_data, data, client_request_info, is_top_node,
\* quorum_requester_info or vote table, creates no send task (no
\* QuorumRequest, QuorumResponse or WriteDataRequest), and writes the TESTMSG
\* marker back to the sender.
C14_ProbeNeutral ==
    [][\A e \in NewNoise :
         e.kind = "TESTMSG"
         => (/\ UNCHANGED <<temp_data, data, client_request_info, is_top_node,
                            quorum_requester_info, level_quorum_count>>
             /\ net' = net
             /\ e.reply = "TESTMSG")]_vars

\* a node has answered a probe while it had a write pending and votes counted
C14_Witness ==
    \E e \in noise :
        /\ e.kind = "TESTMSG" /\ e.reply = "TESTMSG"
        /\ e.before["QuorumResponse"] >= 1
        /\ temp_data[e.node] = Record(1)
        /\ is_top_node[e.node]

\* C15 (an unusable message is dropped): the step in which a node handles a
\* payload it cannot decode, or an object of an unsupported type, changes no
\* transaction state of any node, creates no send task and writes nothing
\* back; the node handles later messages as before.
C15_Dropped ==
    [][\A e \in NewNoise :
         e.kind \in {"malformed", "unsupported"}
         => (/\ UNCHANGED <<temp_data, data, client_request_info, is_top_node,
                            quorum_requester_info, level_quorum_count>>
             /\ net' = net
             /\ handled' = handled
             /\ e.reply = "none")]_vars

\* a coordinator dropped a message while its write was pending, handled more
\* QuorumResponses afterwards and committed the write
C15_Witness ==
    \E e \in noise :
        /\ e.kind \in {"malformed", "unsupported"}
        /\ e.node = coordinator
        /\ handled[e.node]["QuorumResponse"] > e.before["QuorumResponse"]
        /\ data[e.node] = Record(1)

\* the coordinator of the single write holds two true votes at level 0 and
\* has stored the record
Committed ==
    /\ writes = 1
    /\ TrueVotes(level_quorum_count[coordinator], 0) >= 2
    /\ data[coordinator] = Record(1)

\* C16 (coordinator liveness): in the fresh cluster of three groups of three,
\* once a single ClientWrite{r} has been handled by any node, that node
\* eventually holds at least two true votes at level 0 and data = r, in
\* whatever order the messages of the quorum are delivered.
C16_CoordinatorCommits == (writes = 1) ~> Committed

\* a coordinator that is no representative has committed, and every
\* QuorumRequest and QuorumResponse has been delivered
C16_Witness ==
    /\ Committed
    /\ coordinator \notin first_level
    /\ \A m \in InFlight : m.kind = "WriteDataRequest"

\* C17 (no write identity): a QuorumResponse is counted for whatever write the
\* node has pending when it handles it: the step registers the sender's true
\* vote at level current, and if that leaves two true votes at level 0 the
\* node stores its pending record.  So a response that was created for the
\* first write and is handled after the second ClientWrite counts toward the
\* second.
C17_StaleResponseCounts ==
    [][\A m \in InFlight :
         (m.kind = "QuorumResponse" /\ Took(m))
         => (/\ VotedTrue(level_quorum_count'[m.to], m.level - 1, m.sender)
             /\ (m.level = 1 /\ TrueVotes(level_quorum_count'[m.to], 0) >= 2)
                => data'[m.to] = temp_data[m.to])]_vars

\* the coordinator has committed the second record while every
\* QuorumRequest that carries the second record is still in flight: no node
\* has accepted one
C17_Witness ==
    /\ writes = 2
    /\ data[coordinator] = Record(2)
    /\ \A x \in BagToSet(ExpectedFanOut(coordinator, Record(2))) : x \in InFlight
    /\ Cardinality({x \in InFlight : x.kind = "QuorumRequest" /\ x.data = Record(2)})
         = BagCardinality(ExpectedFanOut(coordinator, Record(2)))

\* the WriteDataRequests of a commit by node n
CommitBroadcast(n) ==
    SetToBag({[kind |-> "WriteDataRequest", sender |-> n, to |-> s,
               version_number |-> 0, level |-> 0] : s \in first_level \ {n}})

\* the aggregated QuorumResponse of node n for level lvl
Forwarded(n, lvl) ==
    SetToBag({[kind |-> "QuorumResponse", sender |-> n, to |-> quorum_requester_info[n],
               accept_changes |-> TRUE, level |-> lvl]})

\* C18 (QuorumResponse dispatch): when a node has handled a QuorumResponse and
\* then holds at least 2 true votes at level current: if current = 0 it
\* stores temp_data and creates one WriteDataRequest{level 0} per member of
\* level(0) other than itself and nothing else; else, if is_top_node is
\* false, it creates exactly one QuorumResponse{true, current} addressed to
\* quorum_requester_info and changes no data; else it creates nothing and
\* changes no data.
C18_ResponseDispatch ==
    [][\A m \in InFlight :
         (/\ m.kind = "QuorumResponse"
          /\ Took(m)
          /\ TrueVotes(level_quorum_count'[m.to], m.level - 1) >= 2)
         => IF m.level - 1 = 0
            THEN /\ data' = [data EXCEPT ![m.to] = temp_data[m.to]]
                 /\ Sent = CommitBroadcast(m.to)
            ELSE IF ~is_top_node[m.to]
                 THEN Sent = Forwarded(m.to, m.level - 1) /\ data' = data
                 ELSE Sent = EmptyBag /\ data' = data]_vars

\* a coordinator holds two true votes of its bottom group and its own vote
\* at level 0, has created no QuorumResponse and has not committed, while
\* another representative's aggregated QuorumResponse is in flight to it
C18_Witness ==
    /\ writes = 1
    /\ TrueVotes(level_quorum_count[coordinator], Depth - 1) >= 2
    /\ TrueVotes(level_quorum_count[coordinator], 0) = 1
    /\ data[coordinator] = initial_data
    /\ \A m \in InFlight : m.sender = coordinator => m.kind = "QuorumRequest"
    /\ \E m \in InFlight : Aggregated(m) /\ m.to = coordinator /\ m.sender # coordinator

\* the QuorumRequests a node n forwards to level lvl for record d
ForwardedRequests(n, d, lvl) ==
    SetToBag({[kind |-> "QuorumRequest", sender |-> n, to |-> s, data |-> d,
               level |-> lvl] : s \in network_structure(n)[lvl] \ {n}})

C20_LeafAccept ==
    [][\A m \in InFlight :
         (m.kind = "QuorumRequest" /\ m.level + 1 >= Depth /\ Took(m))
         => (/\ Sent = SetToBag({[kind |-> "QuorumResponse", sender |-> m.to,
                                   to |-> m.sender, accept_changes |-> TRUE,
                                   level |-> m.level + 1]})
             /\ UNCHANGED <<temp_data, data, client_request_info,
                            quorum_requester_info, is_top_node,
                            level_quorum_count>>)]_vars

\* a coordinator that has committed its write has afterwards accepted, as a
\* leaf, the QuorumRequest{level 1} of its group's representative
C20_Witness ==
    \E z \in first_level :
        /\ writes = 1
        /\ coordinator \in netgroup(z) \ {z}
        /\ data[coordinator] = Record(1)
        /\ handled[coordinator]["QuorumRequest"] = 1
        /\ handled[coordinator]["QuorumResponse"] >= 3
        /\ [kind |-> "QuorumResponse", sender |-> coordinator, to |-> z,
             accept_changes |-> TRUE, level |-> Depth] \in InFlight

\* the WriteDataRequests a node n sends to level lvl
WriteFanOut(n, lvl) ==
    SetToBag({[kind |-> "WriteDataRequest", sender |-> n, to |-> s,
               version_number |-> 0, level |-> lvl] :
              s \in network_structure(n)[lvl] \ {n}})

\* C21 (WriteCommit forwarding): the step in which a node handles a
\* WriteDataRequest{level m} creates one WriteDataRequest{level m+1} per member
\* of level(m+1) other than itself if m+1 < L and no message otherwise; every
\* WriteDataRequest in flight has a level in 0..L-1; and a WriteDataRequest of
\* a level above 0 is only ever created by the node that handles, in the same
\* step, a WriteDataRequest of the level just below, so that the level of a
\* WriteDataRequest is its position on its cascade path and no path has more
\* than L messages.
C21_WriteForwarding ==
    [][/\ \A m \in InFlight :
            (m.kind = "WriteDataRequest" /\ Took(m))
            => Sent = IF m.level + 1 < Depth THEN WriteFanOut(m.to, m.level + 1)
                                             ELSE EmptyBag
       /\ \A x \in BagToSet(net') :
            x.kind = "WriteDataRequest" => x.level \in Levels
       /\ \A x \in BagToSet(Sent) :
            (x.kind = "WriteDataRequest" /\ x.level > 0)
            => \E m \in InFlight :
                  /\ m.kind = "WriteDataRequest" /\ Took(m)
                  /\ m.level = x.level - 1 /\ x.sender = m.to]_vars

\* a representative has handled the coordinator's WriteDataRequest{level 0}
\* and passed it on at level 1; one member of its group has handled that and
\* sent nothing, the request to the other member is still in flight
C21_Witness ==
    \E z \in first_level \ {coordinator} : \E a, b \in netgroup(z) \ {z} :
        /\ a # b
        /\ handled[z]["WriteDataRequest"] = 1
        /\ handled[a]["WriteDataRequest"] = 1
        /\ handled[b]["WriteDataRequest"] = 0
        /\ \A x \in InFlight : x.sender # a
        /\ \A x \in InFlight :
              (x.kind = "WriteDataRequest" /\ x.sender = z)
              => (x.to = b /\ x.level = Depth - 1)
        /\ \E x \in InFlight : x.kind = "WriteDataRequest" /\ x.sender = z

\* C22 (the bubble pre-set targets a level above): in every step in which a
\* node handles a QuorumResponse{level k} sent by a member of its own bottom
\* group and then counts at least 2 true votes at level current = k-1 (so that
\* the handler executes the pre-set of its own vote at current-1), current is
\* at least 1, that is, current-1 is one of the levels 0..L-1.
C22_BubbleTargetsLevelAbove ==
    [][\A m \in InFlight :
         (/\ m.kind = "QuorumResponse"
          /\ Took(m)
          /\ m.sender \in netgroup(m.to)
          /\ TrueVotes(level_quorum_count'[m.to], m.level - 1) >= 2)
         => (m.level - 1 >= 1 /\ m.level - 2 \in Levels)]_vars

\* C23 (only a coordinator originates a commit): is_top_node of a node is true
\* exactly when it has handled a ClientDataMessage.  In every step of a run
\* with one or several writes, every WriteDataRequest{level 0} in flight was
\* sent by a node whose is_top_node is true, and a node whose is_top_node is
\* false that handles a QuorumResponse handles one of a level other than 1,
\* creates no WriteDataRequest and changes no data.
C23_OnlyCoordinatorCommits ==
    [][/\ \A x \in BagToSet(net') :
            (x.kind = "WriteDataRequest" /\ x.level = 0) => is_top_node'[x.sender]
       /\ \A n \in servers : is_top_node'[n] <=> client_request_info'[n] # None
       /\ \A m \in InFlight :
            (m.kind = "QuorumResponse" /\ Took(m) /\ ~is_top_node[m.to])
            => /\ m.level # 1
               /\ \A x \in BagToSet(Sent) : x.kind # "WriteDataRequest"
               /\ data' = data]_vars

\* two writes have been handled, the WriteDataRequest{level 0} of a
\* coordinator is in flight, and a representative that has handled no
\* ClientDataMessage has handled a QuorumResponse and sent its aggregated
\* QuorumResponse to a coordinator
C23_Witness ==
    /\ writes = 2
    /\ \E x \in InFlight :
          x.kind = "WriteDataRequest" /\ x.level = 0 /\ is_top_node[x.sender]
    /\ \E z \in first_level :
          /\ ~is_top_node[z]
          /\ handled[z]["QuorumResponse"] >= 1
          /\ TrueVotes(level_quorum_count[z], Depth - 1) >= 2
          /\ is_top_node[quorum_requester_info[z]]

\* C24 (no de-duplication): in a run with a single write, in every step in
\* which a node handles a QuorumResponse for a level at which it already
\* counted at least 2 true votes before the step, the node acts again: at
\* level 0 it broadcasts WriteDataRequest{level 0} once more, at a level below
\* a node that is not the coordinator sends its aggregated QuorumResponse once
\* more; and when the node has committed before (its data is its temp_data),
\* or the level is not 0, the step changes no node's data.  Nor does the step
\* in which a node that has handled a WriteDataRequest handles another one.
C24_NoDeduplication ==
    [][/\ \A m \in InFlight :
            (/\ m.kind = "QuorumResponse" /\ Took(m)
             /\ TrueVotes(level_quorum_count[m.to], m.level - 1) >= 2)
            => /\ Sent = IF m.level - 1 = 0 THEN CommitBroadcast(m.to)
                         ELSE IF ~is_top_node[m.to] THEN Forwarded(m.to, m.level - 1)
                         ELSE EmptyBag
               /\ Sent # EmptyBag \/ is_top_node[m.to]
               /\ (m.level - 1 # 0 \/ data[m.to] = temp_data[m.to]) => data' = data
       /\ \A m \in InFlight :
            (/\ m.kind = "WriteDataRequest" /\ Took(m)
             /\ handled[m.to]["WriteDataRequest"] >= 1)
            => data' = data]_vars

\* a representative whose two peers have both replied has its aggregated
\* QuorumResponse in flight twice, and the coordinator has committed twice
\* on the votes of others: that representative has handled both of the
\* coordinator's WriteDataRequests{level 0}
C24_Witness ==
    \E z \in first_level \ {coordinator} :
        /\ writes = 1
        /\ handled[z]["QuorumResponse"] = 2
        /\ CopiesIn([kind |-> "QuorumResponse", sender |-> z, to |-> coordinator,
                     accept_changes |-> TRUE, level |-> 1], net) = 2
        /\ data[coordinator] = Record(1)
        /\ handled[z]["WriteDataRequest"] = 2

\* the place of a message in the order of the protocol: QuorumRequests by
\* rising level, then QuorumResponses by falling level, then WriteDataRequests
\* by rising level
Stage(x) ==
    CASE x.kind = "QuorumRequest" -> x.level
      [] x.kind = "QuorumResponse" -> 2 * Depth - x.level
      [] x.kind = "WriteDataRequest" -> 2 * Depth + x.level

\* C25 (quiescence): a run with at most one ClientWrite, in which every
\* message in flight is delivered in the end, reaches a state with no message
\* in flight and stays there (a run without the write is there from the
\* start).  No message cycle exists: a forwarded QuorumRequest
\* has the level of the handled one plus 1, below L; a forwarded
\* QuorumResponse has the level of the handled one minus 1, at least 1; and
\* every message a step creates comes later in the order of the protocol
\* than the message the step handled.
C25_Quiescence ==
    /\ <>[](net = EmptyBag)
    /\ [][\A m \in InFlight : Took(m) =>
            \A x \in BagToSet(Sent) :
                /\ Stage(x) > Stage(m)
                /\ x.level \in 0..Depth
                /\ (m.kind = "QuorumRequest" /\ x.kind = "QuorumRequest")
                   => (x.level = m.level + 1 /\ x.level < Depth)
                /\ (m.kind = "QuorumResponse" /\ x.kind = "QuorumResponse")
                   => (x.level = m.level - 1 /\ x.level >= 1)]_vars

\* the run has come to rest after a commit: no message is in flight, the
\* coordinator has stored the record, and every representative has handled
\* QuorumRequests, QuorumResponses and WriteDataRequests
C25_Witness ==
    /\ writes = 1
    /\ net = EmptyBag
    /\ data[coordinator] = Record(1)
    /\ \A z \in first_level \ {coordinator} : \A k \in Kinds : handled[z][k] >= 1

\* the coordinator of the single write has stored the record
Stored == writes = 1 /\ data[coordinator] = Record(1)

\* C26 (minority failure is tolerated): in the fresh cluster of three groups
\* of three with one whole branch other than the coordinator's cut off, once
\* the single ClientWrite{r} has been handled, the coordinator eventually
\* stores r, provided every message between reachable servers is delivered.
C26_MinorityTolerated == (writes = 1) ~> Stored

====
